---- MODULE Spec2Model ----
(***************************************************************************)
(* The branch-line parser of brune (src/main.rs): the character            *)
(* classifiers, the nom recognizers built from them, and git_line_parser.  *)
(*                                                                         *)
(* A text is a sequence of Unicode scalar values, each written as a        *)
(* one-character string ("U+1F603" stands for the emoji of the tests).     *)
(* nom scans a &str with char_indices, so every span it returns starts and *)
(* ends on a scalar-value boundary; the model works on scalar values.      *)
(*                                                                         *)
(* An IResult is a record: ok, rest (the remaining input on success, the   *)
(* input at the point of failure on Err::Error), out (the value) and err   *)
(* (the nom ErrorKind).                                                    *)
(***************************************************************************)
EXTENDS Naturals, Sequences, FiniteSets

VARIABLES input, op, res, locals

vars == <<input, op, res, locals>>

\* ------------------------------------------------------------ bounds

\* The number of fragments a generated line is made of.
MaxFrags == 4

\* ------------------------------------------------- character classes
\* char::is_alphabetic, char::is_whitespace and char::is_digit, over the
\* characters that occur in the lines below; every other character of a
\* line ("*", "[", "]", "U+1F603") is in none of the classes.

Lower ==
  {"a","b","c","d","e","f","g","h","i","j","k","l","m",
   "n","o","p","q","r","s","t","u","v","w","x","y","z"}

Upper ==
  {"A","B","C","D","E","F","G","H","I","J","K","L","M",
   "N","O","P","Q","R","S","T","U","V","W","X","Y","Z"}

DecDigits == {"0","1","2","3","4","5","6","7","8","9"}

HexLetters == {"a","b","c","d","e","f","A","B","C","D","E","F"}

is_alphabetic(c) == c \in Lower \cup Upper

is_whitespace(c) == c \in {" ", "\t", "\n", "\r"}

is_hex_digit(c) == c \in DecDigits \cup HexLetters

is_allowed_punctuation(c) == c = "-" \/ c = "_" \/ c = "/"

is_digit(c) == c \in DecDigits

\* -------------------------------------------------------- nom results

None == [some |-> FALSE, val |-> <<>>]

Some(v) == [some |-> TRUE, val |-> v]

Ok(rest, out) == [ok |-> TRUE, rest |-> rest, out |-> out, err |-> "none"]

Err(at, kind) == [ok |-> FALSE, rest |-> at, out |-> <<>>, err |-> kind]

Drop(s, n) == SubSeq(s, n + 1, Len(s))

Take(s, n) == SubSeq(s, 1, n)

\* tag(prefix): the prefix is consumed when the input starts with it.
tag(prefix, i) ==
  IF Len(prefix) <= Len(i) /\ Take(i, Len(prefix)) = prefix
    THEN Ok(Drop(i, Len(prefix)), prefix)
    ELSE Err(i, "Tag")

\* The closures handed to take_while, by name.
Satisfies(pred, c) ==
  CASE pred = "is_whitespace" -> is_whitespace(c)
    [] pred = "is_alphabetic" -> is_alphabetic(c)
    [] pred = "is_hex_digit" -> is_hex_digit(c)
    [] pred = "is_digit" -> is_digit(c)
    [] pred = "is_branch_name_char" ->
         is_alphabetic(c) \/ is_allowed_punctuation(c) \/ is_digit(c)
    [] pred = "is_annotation_char" ->
         is_alphabetic(c) \/ is_allowed_punctuation(c) \/ is_digit(c)
           \/ is_whitespace(c)
    [] pred = "is_whitespace_or_star" -> is_whitespace(c) \/ c = "*"

\* The length of the longest prefix of i whose characters all satisfy pred.
RunLen(pred, i) ==
  LET stop == {k \in 1..Len(i) : ~Satisfies(pred, i[k])}
  IN  IF stop = {} THEN Len(i)
      ELSE (CHOOSE k \in stop : \A j \in stop : k <= j) - 1

\* take_while(pred) of nom::bytes::complete: never fails.
take_while(pred, i) ==
  LET n == RunLen(pred, i) IN Ok(Drop(i, n), Take(i, n))

\* opt(f): r is the result of f on i.
opt_strict(r, i) == IF r.ok THEN Ok(r.rest, Some(r.out)) ELSE r

opt_leaky(r, i) == Ok(r.rest, IF r.ok THEN Some(r.out) ELSE None)

opt(r, i) == IF r.ok THEN Ok(r.rest, Some(r.out)) ELSE Ok(i, None)

\* --------------------------------------------------------- recognizers

take_whitespace(i) == take_while("is_whitespace", i)

take_branch_name_alphabetic(i) == take_while("is_alphabetic", i)

take_branch_name(i) == take_while("is_branch_name_char", i)

take_annotation_open_close(i) ==
  LET o == tag(<<"[">>, i)
      m == take_while("is_annotation_char", o.rest)
      c == tag(<<"]">>, m.rest)
  IN  IF ~o.ok THEN o ELSE IF ~c.ok THEN c ELSE Ok(m.rest, m.out)

\* delimited(tag("["), take_while(..), tag("]"))
take_annotation(i) ==
  LET o == tag(<<"[">>, i)
      m == take_while("is_annotation_char", o.rest)
      c == tag(<<"]">>, m.rest)
  IN  IF ~o.ok THEN o ELSE IF ~c.ok THEN c ELSE Ok(c.rest, m.out)

take_whitespace_only(i) == take_while("is_whitespace", i)

take_whitespace_or_star(i) == take_while("is_whitespace_or_star", i)

take_hex_decimal(i) == take_while("is_digit", i)

take_hex_one_or_more(i) ==
  IF RunLen("is_hex_digit", i) = 0 THEN Err(i, "TakeWhile1")
  ELSE take_while("is_hex_digit", i)

\* map(take_while(is_hex_digit), HexValue): HexValue wraps the matched text.
take_hex(i) == take_while("is_hex_digit", i)

\* ------------------------------------------------------ git_line_parser

Active == "Active"

Deleted == "Deleted"

gone == <<"g","o","n","e">>

\* opt(|i| take_annotation(i)) and opt(|i| take_whitespace(i))
opt_take_annotation(i) == opt(take_annotation(i), i)

opt_take_whitespace(i) == opt(take_whitespace(i), i)

\* The input a step of git_line_parser starts from: the remainder of the
\* step before it (tail2 .. tail7).
tail(l) == l[Len(l)].rest

step2(i) == <<take_whitespace_or_star(i)>>

step3(l) == Append(l, take_branch_name(tail(l)))

step4(l) == Append(l, take_whitespace(tail(l)))

step5(l) == Append(l, take_hex(tail(l)))

step6(l) == Append(l, take_whitespace(tail(l)))

step7(l) == Append(l, opt_take_annotation(tail(l)))

step8_skipped(l) == Append(l, Ok(tail(l), None))

step8(l) == Append(l, opt_take_whitespace(tail(l)))

\* The seven recognizer applications of git_line_parser, in order: the
\* results whose remainders are the source's tail2 .. tail8.
git_line_steps(i) == step8(step7(step6(step5(step4(step3(step2(i)))))))

\* The first step that failed, or 0: each `?` returns its failure at once.
FirstFailure(l) ==
  IF \A k \in 1..Len(l) : l[k].ok THEN 0
  ELSE CHOOSE k \in 1..Len(l) : ~l[k].ok /\ \A j \in 1..(k - 1) : l[j].ok

GitHubBranchLine(branch_name, branch_type, comment) ==
  [branch_name |-> branch_name, branch_type |-> branch_type,
   comment |-> comment]

branch_type_of_prefix(gone_op) ==
  IF gone_op.some /\ Len(gone_op.val) >= Len(gone)
       /\ Take(gone_op.val, Len(gone)) = gone
    THEN Deleted ELSE Active

\* match gone_op { Some("gone") => Deleted, _ => Active }
branch_type_of(gone_op) ==
  IF gone_op = Some(gone) THEN Deleted ELSE Active

assemble_returns_tail7(l) ==
  IF FirstFailure(l) # 0 THEN l[FirstFailure(l)]
  ELSE Ok(l[6].rest,
          GitHubBranchLine(l[2].out, branch_type_of(l[6].out), l[7].rest))

\* The record is built from branch_n, gone_op and tail8, and tail8 is
\* returned as the remainder.
assemble(l) ==
  IF FirstFailure(l) # 0 THEN l[FirstFailure(l)]
  ELSE Ok(l[7].rest,
          GitHubBranchLine(l[2].out, branch_type_of(l[6].out), l[7].rest))

git_line_parser(i) == assemble(git_line_steps(i))

\* ------------------------------------------------------------- inputs

\* The pieces generated lines are made of: a blank, the current-branch
\* marker, the annotation brackets, the word "gone", a letter that is no
\* hexadecimal digit, a hexadecimal letter, a decimal digit, an allowed
\* punctuation character and a character of no class at all.
Fragments ==
  { <<" ">>, <<"*">>, <<"[">>, <<"]">>, gone, <<"G">>, <<"d">>, <<"3">>,
    <<"-">>, <<"U+1F603">> }

RECURSIVE Flatten(_)
Flatten(fs) == IF fs = <<>> THEN <<>> ELSE Head(fs) \o Flatten(Tail(fs))

GeneratedLines ==
  { Flatten(fs) : fs \in UNION { [1..n -> Fragments] : n \in 0..MaxFrags } }

\* The number of fragments a generated line is made of.
RECURSIVE NumFrags(_)
NumFrags(s) ==
  IF s = <<>> THEN 0
  ELSE IF Len(s) >= Len(gone) /\ Take(s, Len(gone)) = gone
    THEN 1 + NumFrags(Drop(s, Len(gone)))
  ELSE 1 + NumFrags(Tail(s))

\* src/src/main.rs:174:    FeatureC         dddd3333 [gone] Random weird comments
LineGone ==
  <<" "," "," ","F","e","a","t","u","r","e","C"," "," "," "," "," "," "," ",
    " "," ","d","d","d","d","3","3","3","3"," ","[","g","o","n","e","]"," ",
    "R","a","n","d","o","m"," ","w","e","i","r","d"," ","c","o","m","m","e",
    "n","t","s">>

\* src/src/main.rs:208: FeatureB         eeee3333 [behind 3] Random weird comments
LineBehind ==
  <<"F","e","a","t","u","r","e","B"," "," "," "," "," "," "," "," "," ","e",
    "e","e","e","3","3","3","3"," ","[","b","e","h","i","n","d"," ","3","]",
    " ","R","a","n","d","o","m"," ","w","e","i","r","d"," ","c","o","m","m",
    "e","n","t","s">>

\* src/src/main.rs:234:  * XYZ/ID-9AB-blee-blah-2                        dddd3333   [ahead 1]   Blah (U+1F603) blah
LineEmoji ==
  <<" ","*"," ","X","Y","Z","/","I","D","-","9","A","B","-","b","l","e","e",
    "-","b","l","a","h","-","2"," "," "," "," "," "," "," "," "," "," "," ",
    " "," "," "," "," "," "," "," "," "," "," "," "," ","d","d","d","d","3",
    "3","3","3"," "," "," ","[","a","h","e","a","d"," ","1","]"," "," "," ",
    "B","l","a","h"," ","U+1F603"," ","b","l","a","h">>

\* src/src/main.rs:163: dddd3333G32H
LineHex ==
  <<"d","d","d","d","3","3","3","3","G","3","2","H">>

\* an annotation that is opened and never closed: FeatureX  dddd3333 [gone Random
LineUnclosed ==
  <<"F","e","a","t","u","r","e","X"," "," ","d","d","d","d","3","3","3","3",
    " ","[","g","o","n","e"," ","R","a","n","d","o","m">>

\* an annotation that differs from "gone" in case only
LineCapital == <<"[","G","o","n","e","]">>

TestLines ==
  {LineGone, LineBehind, LineEmoji, LineHex, LineUnclosed, LineCapital}

Lines == GeneratedLines \cup TestLines

\* ------------------------------------------------------ state machine

NoLocals == <<>>

NoResult == <<>>

Init ==
  /\ input \in Lines
  /\ op = "none"
  /\ res = NoResult
  /\ locals = NoLocals

Apply(name, r) ==
  /\ op = "none"
  /\ op' = name
  /\ res' = r
  /\ UNCHANGED <<input, locals>>

TakeWhitespace == Apply("take_whitespace", take_whitespace(input))

TakeWhitespaceOrStar ==
  Apply("take_whitespace_or_star", take_whitespace_or_star(input))

TakeBranchName == Apply("take_branch_name", take_branch_name(input))

TakeHex == Apply("take_hex", take_hex(input))

TakeAnnotation == Apply("take_annotation", take_annotation(input))

\* main: the line is handed to git_line_parser.
ParseLine ==
  /\ op = "none"
  /\ op' = "git_line_parser"
  /\ res' = git_line_parser(input)
  /\ locals' = git_line_steps(input)
  /\ UNCHANGED input

\* The same line listed as the current branch or indented further: one more
\* marker character in front of it, parsed again.
ParseMarked ==
  /\ op = "git_line_parser"
  /\ NumFrags(input) < MaxFrags
  /\ \E c \in {" ", "\t", "*"} :
       /\ input' = <<c>> \o input
       /\ res' = git_line_parser(input')
       /\ locals' = git_line_steps(input')
  /\ UNCHANGED op

Next ==
  \/ TakeWhitespace
  \/ TakeWhitespaceOrStar
  \/ TakeBranchName
  \/ TakeHex
  \/ TakeAnnotation
  \/ ParseLine
  \/ ParseMarked

Spec == Init /\ [][Next]_vars

\* ---------------------------------------------- the parsed line's spans

Parsed == op = "git_line_parser"

marker == locals[1].out
tail2 == locals[1].rest
branch_n == locals[2].out
ws4 == locals[3].out
tail4 == locals[3].rest
hex_value == locals[4].out
ws6 == locals[5].out
tail6 == locals[5].rest
gone_op == locals[6].out
tail7 == locals[6].rest
ws8 == IF locals[7].out.some THEN locals[7].out.val ELSE <<>>
tail8 == locals[7].rest

annotation_span ==
  IF gone_op.some THEN <<"[">> \o gone_op.val \o <<"]">> ELSE <<>>

StartsWith(s, p) == Len(p) <= Len(s) /\ Take(s, Len(p)) = p

IsSuffix(p, s) == Len(p) <= Len(s) /\ Drop(s, Len(s) - Len(p)) = p

Comment == res.out.comment

\* ------------------------------------------------------------- claims

\* The text at the annotation position opens a bracket, goes on with
\* annotation characters only and never closes it.
UnclosedAnnotation(t) ==
  /\ t # <<>>
  /\ t[1] = "["
  /\ \A k \in 2..Len(t) : Satisfies("is_annotation_char", t[k])

\* C1 as stated: a line whose annotation is opened and never closed makes
\* git_line_parser fail, and no record is produced.
C1_UnclosedAnnotationFails ==
  (Parsed /\ UnclosedAnnotation(tail6)) => ~res.ok

\* C1, amended: a line whose annotation is opened and never closed is
\* parsed successfully; the record is Active and its comment (and the
\* remainder) is the text from the "[" on.
C1_UnclosedAnnotationIsComment ==
  (Parsed /\ UnclosedAnnotation(tail6)) =>
    /\ res.ok
    /\ res.out.branch_type = Active
    /\ Comment = tail6
    /\ res.rest = tail6

C1_Witness ==
  /\ Parsed
  /\ input = LineUnclosed
  /\ res.ok
  /\ res.out.branch_name = <<"F","e","a","t","u","r","e","X">>
  /\ Comment = <<"[","g","o","n","e"," ","R","a","n","d","o","m">>

\* Lines the claim lists as Active: no annotation, "[]", "[behind 3]",
\* "[gone ]", "[ gone]", "[Gone]", and "[gone]" only later in the comment.
ActiveExamples ==
  { <<>>, <<"[","]">>, LineBehind, <<"[">> \o gone \o <<" ","]">>,
    <<"[", " ">> \o gone \o <<"]">>, LineCapital,
    <<"U+1F603","[">> \o gone \o <<"]">> }

\* C2: a parsed line is Deleted exactly when the text at the annotation
\* position starts with "[gone]"; every other line is Active.
C2_DeletedIffGone ==
  (Parsed /\ res.ok) =>
    /\ res.out.branch_type \in {Active, Deleted}
    /\ res.out.branch_type = Deleted <=>
         StartsWith(tail6, <<"[">> \o gone \o <<"]">>)
    /\ input \in ActiveExamples => res.out.branch_type = Active

C2_Witness ==
  /\ Parsed
  /\ input = LineGone
  /\ res.ok
  /\ res.out.branch_type = Deleted
  /\ gone_op = Some(gone)

\* C3: the consumed spans followed by the comment are the input line, and
\* the comment is a suffix of the line, character for character.
C3_SpanPartition ==
  (Parsed /\ res.ok) =>
    /\ marker \o res.out.branch_name \o ws4 \o hex_value \o ws6
         \o annotation_span \o ws8 \o Comment = input
    /\ IsSuffix(Comment, input)

C3_Witness ==
  /\ Parsed
  /\ input = LineEmoji
  /\ res.ok
  /\ annotation_span = <<"[","a","h","e","a","d"," ","1","]">>
  /\ Comment = <<"B","l","a","h"," ","U+1F603"," ","b","l","a","h">>

\* C4: the remainder git_line_parser returns is the record's comment.
C4_RemainderIsComment ==
  (Parsed /\ res.ok) => res.rest = Comment

C4_Witness ==
  /\ Parsed
  /\ input = LineBehind
  /\ res.ok
  /\ ws8 # <<>>
  /\ res.rest = <<"R","a","n","d","o","m"," ","w","e","i","r","d"," ",
                  "c","o","m","m","e","n","t","s">>

\* C5: one more whitespace or "*" character in front of a line does not
\* change what git_line_parser returns for it.
C5_MarkerHasNoEffect ==
  [][ ( /\ Parsed
        /\ Parsed'
        /\ \E c \in {" ", "\t", "*"} : input' = <<c>> \o input )
      => res' = res ]_vars

C5_Witness ==
  /\ Parsed
  /\ input = <<"\t", "[">> \o gone \o <<"]">>
  /\ res.ok
  /\ res.out.branch_type = Deleted

\* What a greedy run over the predicate pred returns for the line.
GreedyRun(pred) ==
  /\ res.ok
  /\ res.out \o res.rest = input
  /\ \A k \in 1..Len(res.out) : Satisfies(pred, res.out[k])
  /\ res.rest = <<>> \/ ~Satisfies(pred, res.rest[1])

\* C6: each greedy-run recognizer succeeds, splits its input into a matched
\* span of characters of its class and a remainder that is empty or starts
\* outside the class; a branch name holds no whitespace and no bracket, and
\* take_hex stops at the first character that is no hexadecimal digit.
C6_GreedyRuns ==
  /\ op = "take_whitespace" => GreedyRun("is_whitespace")
  /\ op = "take_whitespace_or_star" => GreedyRun("is_whitespace_or_star")
  /\ op = "take_branch_name" =>
       /\ GreedyRun("is_branch_name_char")
       /\ \A k \in 1..Len(res.out) :
            ~is_whitespace(res.out[k]) /\ res.out[k] \notin {"[", "]"}
  /\ op = "take_hex" =>
       /\ GreedyRun("is_hex_digit")
       /\ input = LineHex =>
            /\ res.out = <<"d","d","d","d","3","3","3","3">>
            /\ res.rest = <<"G","3","2","H">>

C6_Witness ==
  /\ op = "take_hex"
  /\ input = LineHex
  /\ res.out = <<"d","d","d","d","3","3","3","3">>
  /\ res.rest = <<"G","3","2","H">>

\* C7: a line with no "[" at the annotation position is parsed
\* successfully; the branch name is empty when the text after the marker
\* run does not start with a branch-name character, and the hash is empty
\* when the text after the name and the whitespace does not start with a
\* hexadecimal digit.
C7_EmptyMatchesAccepted ==
  (Parsed /\ (tail6 = <<>> \/ tail6[1] # "[")) =>
    /\ res.ok
    /\ (tail2 = <<>> \/ ~Satisfies("is_branch_name_char", tail2[1]))
         => res.out.branch_name = <<>>
    /\ (tail4 = <<>> \/ ~is_hex_digit(tail4[1]))
         => hex_value = <<>>

C7_Witness ==
  /\ Parsed
  /\ input = <<>>
  /\ res.ok
  /\ res.out.branch_name = <<>>
  /\ hex_value = <<>>
  /\ Comment = <<>>

\* take_annotation cannot match the text: it does not open with "[", or
\* the run of annotation characters after the "[" is not followed by "]".
AnnotationFailsAt(t) ==
  \/ t = <<>>
  \/ t[1] # "["
  \/ \E n \in 1..Len(t) :
       /\ \A k \in 2..n : Satisfies("is_annotation_char", t[k])
       /\ \/ n = Len(t)
          \/ ~Satisfies("is_annotation_char", t[n + 1]) /\ t[n + 1] # "]"

\* C8: when take_annotation fails at the annotation position, there is no
\* annotation, the position is unchanged, the comment is the text from
\* that position on and the record is Active.
C8_FailedAnnotationConsumesNothing ==
  (Parsed /\ AnnotationFailsAt(tail6)) =>
    /\ ~gone_op.some
    /\ tail7 = tail6
    /\ res.ok
    /\ Comment = tail6
    /\ res.out.branch_type = Active

C8_Witness ==
  /\ Parsed
  /\ input = <<" ", "[">> \o gone \o <<"U+1F603">>
  /\ ~gone_op.some
  /\ Comment = <<"[">> \o gone \o <<"U+1F603">>

\* C9: when no whitespace separates the branch name from the hash, the
\* hash is empty.
C9_AdjoiningHashIsEmpty ==
  (Parsed /\ ws4 = <<>>) => hex_value = <<>>

C9_Witness ==
  /\ Parsed
  /\ branch_n = <<"d", "3">>
  /\ ws4 = <<>>
  /\ hex_value = <<>>
  /\ Comment = <<"[", "3">>

\* C10: the comment of a parsed line is empty or starts with a character
\* that is no whitespace.
C10_CommentHasNoLeadingWhitespace ==
  (Parsed /\ res.ok) => (Comment = <<>> \/ ~is_whitespace(Comment[1]))

C10_Witness ==
  /\ Parsed
  /\ input = LineGone
  /\ ws8 = <<" ">>
  /\ Comment[1] = "R"

====
